---- MODULE Spec2Model ----
(***************************************************************************)
(* Model of delete-default-vpc/delete-default.py: for each region, look up *)
(* the default VPC, list its gateway and subnets, ask for confirmation and *)
(* delete the dependent resources in a fixed order, then the VPC.          *)
(* Every provider call is one step; the provider is an external            *)
(* collaborator, so each call may fail and each describe call returns a    *)
(* listing chosen from a small set.                                        *)
(***************************************************************************)
EXTENDS Integers, Sequences, FiniteSets, TLC

\* ---- bounds of the model ----
MaxRegions == 2      \* longest --regions list
MaxItems == 2        \* most resources of one kind a describe call returns
MaxTables == 1       \* most route tables describe_route_tables returns
MaxAssoc == 2        \* most associations of one route table
MaxInvalid == 1      \* most invalid answers typed at one prompt

\* ---- values ----
RegionNames == {"us-east-1", "us-west-1"}

\* describe_regions()['Regions'] mapped to RegionName (line 130)
AvailableRegions == <<"us-east-1", "us-west-1">>

\* Python None / empty value
NoneVal == <<>>

SeqsUpTo(S, n) == UNION {[1..k -> S] : k \in 0..n}

\* a listing of n resources names them 1..n: identifiers are opaque to the
\* script, it only passes them back to the provider
IdSeqs(n) == {[k \in 1..m |-> k] : m \in 0..n}

IncSeqs == IdSeqs(MaxItems)

VpcListings == {<<>>, <<[VpcId |-> <<"vpc", 1>>]>>}

IgwListings ==
  {[k \in DOMAIN s |-> [InternetGatewayId |-> <<"igw", s[k]>>]] : s \in IncSeqs}

SubnetListings ==
  {[k \in DOMAIN s |-> [SubnetId |-> <<"subnet", s[k]>>]] : s \in IncSeqs}

AssociationsOf(n, m) ==
  [j \in DOMAIN m |-> [RouteTableAssociationId |-> <<"rtbassoc", n, j>>,
                       Main |-> m[j]]]

\* Main flags of the associations of one route table: the provider marks at
\* most one association of a table as the main one
MainFlags == {m \in SeqsUpTo(BOOLEAN, MaxAssoc) :
                \A a, b \in DOMAIN m : m[a] /\ m[b] => a = b}

RouteTableListings ==
  UNION {{[k \in DOMAIN s |-> [RouteTableId |-> <<"rtb", s[k]>>,
                               Associations |-> AssociationsOf(s[k], a[k])]] :
            a \in [DOMAIN s -> MainFlags]} : s \in IdSeqs(MaxTables)}

AclListings ==
  UNION {{[k \in DOMAIN s |-> [NetworkAclId |-> <<"acl", s[k]>>,
                               IsDefault |-> d[k]]] :
            d \in [DOMAIN s -> BOOLEAN]} : s \in IncSeqs}

GroupNames == {"default", "web"}

SecurityGroupListings ==
  UNION {{[k \in DOMAIN s |-> [GroupId |-> <<"sg", s[k]>>,
                               GroupName |-> g[k]]] :
            g \in [DOMAIN s -> GroupNames]} : s \in IncSeqs}

\* what the user may type at the prompt, as sequences of characters
Answers == {<<"y">>, <<"Y">>, <<"n">>, <<"N">>, <<"y", "e", "s">>, <<>>}

\* str.lower() (lines 57, 59)
LowerChar(c) ==
  CASE c = "Y" -> "y"
    [] c = "N" -> "n"
    [] c = "E" -> "e"
    [] c = "S" -> "s"
    [] OTHER -> c

Lower(s) == [k \in DOMAIN s |-> LowerChar(s[k])]

VARIABLES
  args_regions,    \* args.regions: NoneVal or the --regions list
  no_confirm,      \* args.no_confirm
  clientRegion,    \* region the module-level client ec2 is bound to (line 45)
  env_region,      \* os.environ['AWS_DEFAULT_REGION']
  REGIONS,         \* the list the for loop walks
  idx,             \* number of regions the for loop has taken from REGIONS
  region,          \* loop variable
  pc,              \* position in the script
  vpcs, vpc, igw, subnets, resources,          \* locals of the main loop body
  confirmation, invalids, prompted,            \* confirm_delete
  igws, dd_subnets, route_tables, network_acls, security_groups,
                   \* listings of delete_dependent_resources, kept while iterated
  i, j,            \* positions of the for loops over a listing / Associations
  calls,           \* provider calls of the stage this iteration is in
  stagesDone,      \* deletion stages completed in this iteration, in order
  mutated,         \* a detach/disassociate/delete call was issued this iteration
  failed,          \* a provider call failed in this iteration
  errlog,          \* logger.error calls of this iteration
  started,         \* regions whose describe_vpcs call was issued, in order
  prevErrors       \* logger.error calls of the iteration before this one,
                   \* kept until this one's describe_vpcs has answered

vars == <<args_regions, no_confirm, clientRegion, env_region, REGIONS, idx,
          region, pc, vpcs, vpc, igw, subnets, resources, confirmation,
          invalids, prompted, igws, dd_subnets, route_tables, network_acls,
          security_groups, i, j, calls, stagesDone, mutated, failed, errlog,
          started, prevErrors>>

inputs == <<args_regions, no_confirm, clientRegion>>
mainLocals == <<vpcs, vpc, igw, subnets, resources>>
confirmLocals == <<confirmation, invalids, prompted>>
ddLocals == <<igws, dd_subnets, route_tables, network_acls, security_groups, i, j>>
loopState == <<env_region, REGIONS, idx, region, started, prevErrors>>


\* ---- provider calls ----

\* the region a call through the module-level client goes to: the client is
\* created once at import time, before the loop (line 45)
TargetRegion == clientRegion

\* one provider call as the log keeps it: operation, calling function, the
\* region it went to, its argument, whether it succeeded and what it returned
Call(op, site, arg, ok) ==
  [op |-> op, site |-> site, region |-> TargetRegion, arg |-> arg, ok |-> ok,
   resp |-> NoneVal]

Answered(call, resp) == [call EXCEPT !.resp = resp]

MutatingOps == {"detach_internet_gateway", "delete_internet_gateway",
                "delete_subnet", "disassociate_route_table",
                "delete_route_table", "delete_network_acl",
                "delete_security_group", "delete_vpc"}

DeleteOps == MutatingOps \ {"detach_internet_gateway", "disassociate_route_table"}

Last(s) == s[Len(s)]

\* ---- start ----

Init ==
  /\ args_regions \in {NoneVal} \cup (SeqsUpTo(RegionNames, MaxRegions) \ {<<>>})
  /\ no_confirm \in BOOLEAN
  /\ clientRegion \in RegionNames
  /\ env_region = clientRegion
  /\ REGIONS = <<>>
  /\ idx = 0
  /\ region = NoneVal
  /\ pc = "describe_regions"
  /\ vpcs = <<>> /\ vpc = NoneVal /\ igw = NoneVal /\ subnets = <<>>
  /\ resources = <<>>
  /\ confirmation = <<>> /\ invalids = 0 /\ prompted = FALSE
  /\ igws = <<>> /\ dd_subnets = <<>> /\ route_tables = <<>>
  /\ network_acls = <<>> /\ security_groups = <<>>
  /\ i = 0 /\ j = 0
  /\ calls = <<>>
  /\ stagesDone = <<>>
  /\ mutated = FALSE
  /\ failed = FALSE
  /\ errlog = 0
  /\ started = <<>>
  /\ prevErrors = 0

\* lines 130-133: the region list; a failing describe_regions is not caught
DescribeRegions ==
  /\ pc = "describe_regions"
  /\ \E ok \in BOOLEAN :
       /\ calls' = Append(calls, Call("describe_regions", "main", NoneVal, ok))
       /\ IF ok
            THEN /\ REGIONS' = IF args_regions # NoneVal THEN args_regions
                                                         ELSE AvailableRegions
                 /\ pc' = "loop"
            ELSE /\ REGIONS' = REGIONS
                 /\ pc' = "crashed"
  /\ UNCHANGED <<inputs, env_region, idx, region, started, prevErrors,
                 mainLocals, confirmLocals, ddLocals, stagesDone, mutated,
                 failed, errlog>>

\* lines 135-137: the for statement takes the next region, or the script ends
ForRegion ==
  /\ pc = "loop"
  /\ IF idx < Len(REGIONS)
       THEN /\ idx' = idx + 1
            /\ region' = REGIONS[idx + 1]
            /\ env_region' = REGIONS[idx + 1]
            /\ pc' = "describe_vpcs"
       ELSE /\ pc' = "done"
            /\ UNCHANGED <<idx, region, env_region>>
  /\ prevErrors' = errlog
  /\ vpcs' = <<>> /\ vpc' = NoneVal /\ igw' = NoneVal /\ subnets' = <<>>
  /\ resources' = <<>>
  /\ confirmation' = <<>> /\ invalids' = 0 /\ prompted' = FALSE
  /\ igws' = <<>> /\ dd_subnets' = <<>> /\ route_tables' = <<>>
  /\ network_acls' = <<>> /\ security_groups' = <<>>
  /\ i' = 0 /\ j' = 0
  /\ calls' = <<>>
  /\ stagesDone' = <<>>
  /\ mutated' = FALSE
  /\ failed' = FALSE
  /\ errlog' = 0
  /\ UNCHANGED <<inputs, REGIONS, started>>

\* variant: the lookup except clauses re-raise instead of continuing
AfterLookupError_Raise == "crashed"

\* where the loop body goes after the except clauses of lines 145-147,
\* 155-157 and 162-164: continue
AfterLookupError == "loop"

\* variant: the empty listing does not end the loop body
AfterDescribeVpcs_NoContinue(found) == "main_igws"

\* lines 142-144 and 148: without a default VPC the loop body ends
AfterDescribeVpcs(found) == IF found = <<>> THEN "loop" ELSE "main_igws"

\* lines 139-149
DescribeVpcs ==
  /\ pc = "describe_vpcs"
  /\ \E ok \in BOOLEAN :
       /\ calls' = Append(calls, Call("describe_vpcs", "main", NoneVal, ok))
       /\ started' = Append(started, region)
       /\ IF ~ok
            THEN /\ errlog' = errlog + 1
                 /\ failed' = TRUE
                 /\ pc' = AfterLookupError
                 /\ UNCHANGED <<vpcs, vpc>>
            ELSE \E resp \in VpcListings :
                 /\ vpcs' = resp
                 /\ pc' = AfterDescribeVpcs(resp)
                 /\ vpc' = IF resp = <<>> THEN vpc ELSE resp[1].VpcId
                 /\ UNCHANGED <<errlog, failed>>
  /\ UNCHANGED <<inputs, env_region, REGIONS, idx, region, prevErrors,
                 igw, subnets, resources, confirmLocals, ddLocals,
                 stagesDone, mutated>>

\* lines 151-157
LookupInternetGateways ==
  /\ pc = "main_igws"
  /\ \E ok \in BOOLEAN :
       /\ calls' = Append(calls, Call("describe_internet_gateways", "main", vpc, ok))
       /\ IF ~ok
            THEN /\ errlog' = errlog + 1
                 /\ failed' = TRUE
                 /\ pc' = AfterLookupError
                 /\ igw' = igw
            ELSE \E resp \in IgwListings :
                 /\ igw' = IF resp # <<>> THEN resp[1].InternetGatewayId
                                          ELSE NoneVal
                 /\ pc' = "main_subnets"
                 /\ UNCHANGED <<errlog, failed>>
  /\ prevErrors' = 0
  /\ UNCHANGED <<inputs, env_region, REGIONS, idx, region, started, vpcs,
                 vpc, subnets, resources, confirmLocals, ddLocals, stagesDone,
                 mutated>>

\* lines 166-172: the listing shown at the prompt
BuildResources(g, sn, v) ==
  (IF g # NoneVal THEN <<<<"Internet gateway", g>>>> ELSE <<>>)
    \o [k \in DOMAIN sn |-> <<"Subnet", sn[k].SubnetId>>]
    \o <<<<"VPC", v>>>>

\* lines 159-172
LookupSubnets ==
  /\ pc = "main_subnets"
  /\ \E ok \in BOOLEAN :
       /\ calls' = Append(calls, Call("describe_subnets", "main", vpc, ok))
       /\ IF ~ok
            THEN /\ errlog' = errlog + 1
                 /\ failed' = TRUE
                 /\ pc' = AfterLookupError
                 /\ UNCHANGED <<subnets, resources>>
            ELSE \E resp \in SubnetListings :
                 /\ subnets' = resp
                 /\ resources' = BuildResources(igw, resp, vpc)
                 /\ pc' = "confirm"
                 /\ UNCHANGED <<errlog, failed>>
  /\ UNCHANGED <<inputs, loopState, vpcs, vpc, igw, confirmLocals, ddLocals,
                 stagesDone, mutated>>

\* variant: the flag is ignored
SkipsPrompt_Never(flag) == FALSE

\* lines 47-54: confirm_delete up to its first input() call
SkipsPrompt(flag) == flag

ConfirmDelete ==
  /\ pc = "confirm"
  /\ pc' = IF SkipsPrompt(no_confirm) THEN "dd_igws" ELSE "input"
  /\ UNCHANGED <<inputs, loopState, mainLocals, confirmLocals, ddLocals,
                 calls, stagesDone, mutated, failed, errlog>>

\* variant: every answer but n counts as y
Verdict_YesUnlessNo(answer) ==
  IF Lower(answer) = <<"n">> THEN "no" ELSE "yes"

\* lines 57-62: what confirm_delete does with one answer
Verdict(answer) ==
  IF Lower(answer) = <<"y">> THEN "yes"
  ELSE IF Lower(answer) = <<"n">> THEN "no"
  ELSE "again"

\* lines 55-62 and 174: one input() call and the branch on its answer
ReadAnswer ==
  /\ pc = "input"
  /\ \E answer \in Answers :
       /\ Verdict(answer) = "again" => invalids < MaxInvalid
       /\ confirmation' = answer
       /\ prompted' = TRUE
       /\ pc' = CASE Verdict(answer) = "yes" -> "dd_igws"
                  [] Verdict(answer) = "no" -> "loop"
                  [] OTHER -> "input"
       /\ invalids' = IF Verdict(answer) = "again" THEN invalids + 1 ELSE 0
  /\ UNCHANGED <<inputs, loopState, mainLocals, ddLocals, calls, stagesDone,
                 mutated, failed, errlog>>


\* ---- delete_dependent_resources (lines 64-122) ----

\* variant: the except clauses of delete_dependent_resources swallow the
\* exception and the function goes on to delete the VPC
AfterStageError_Swallow == "delete_vpc"

\* every except clause of delete_dependent_resources logs and re-raises
\* (lines 71-73, 80-82, 93-95, 103-105, 113-115, 120-122); the exception
\* leaves the function, whose locals go with its frame, and lands in the
\* except clause of lines 178-179, which logs it and ends the loop body
AfterStageError == "loop"

\* logger.error calls on the way of an exception raised by a provider call of
\* delete_dependent_resources: its own except clause, then line 179
StageErrorLogs == 2

\* variant: the security group block is missing
NextStagePc_NoGroups(stage) ==
  CASE stage = "internet_gateways" -> "dd_subnets"
    [] stage = "subnets" -> "dd_route_tables"
    [] stage = "route_tables" -> "dd_acls"
    [] stage = "network_acls" -> "delete_vpc"
    [] stage = "security_groups" -> "delete_vpc"
    [] stage = "vpc" -> "delete_resources"

\* the try block that follows a completed one (lines 75, 84, 97, 107, 117);
\* after the last one the function returns to line 177
NextStagePc(stage) ==
  CASE stage = "internet_gateways" -> "dd_subnets"
    [] stage = "subnets" -> "dd_route_tables"
    [] stage = "route_tables" -> "dd_acls"
    [] stage = "network_acls" -> "dd_sgs"
    [] stage = "security_groups" -> "delete_vpc"
    [] stage = "vpc" -> "delete_resources"

\* line 89
Disassociable(association) == ~association.Main

\* line 91
TableDeletable(rt) ==
  ~(\E k \in DOMAIN rt.Associations : rt.Associations[k].Main)

\* variant: the default ACL is not spared
AclDeletable_All(acl) == TRUE

\* line 101
AclDeletable(acl) == ~acl.IsDefault

\* line 111
GroupDeletable(sg) == sg.GroupName # "default"

\* lines 87-92: the next provider call of the route table loops, from table a
\* and association b on
RECURSIVE NextRouteTableCall(_, _, _)
NextRouteTableCall(rts, a, b) ==
  IF a > Len(rts) THEN [at |-> "done", i |-> 0, j |-> 0]
  ELSE IF b <= Len(rts[a].Associations)
    THEN IF Disassociable(rts[a].Associations[b])
           THEN [at |-> "disassociate", i |-> a, j |-> b]
           ELSE NextRouteTableCall(rts, a, b + 1)
  ELSE IF b = Len(rts[a].Associations) + 1 /\ TableDeletable(rts[a])
    THEN [at |-> "delete_route_table", i |-> a, j |-> b]
  ELSE NextRouteTableCall(rts, a + 1, 1)

\* lines 100-102: the next ACL the loop deletes, from position k on (0: none)
RECURSIVE NextAcl(_, _)
NextAcl(acls, k) ==
  IF k > Len(acls) THEN 0
  ELSE IF AclDeletable(acls[k]) THEN k
  ELSE NextAcl(acls, k + 1)

\* lines 110-112: the next security group the loop deletes (0: none)
RECURSIVE NextGroup(_, _)
NextGroup(sgs, k) ==
  IF k > Len(sgs) THEN 0
  ELSE IF GroupDeletable(sgs[k]) THEN k
  ELSE NextGroup(sgs, k + 1)

\* lines 66-67
DescribeInternetGateways ==
  /\ pc = "dd_igws"
  /\ \E ok \in BOOLEAN :
       /\ IF ~ok
            THEN /\ calls' = <<Call("describe_internet_gateways", "dd", vpc, FALSE)>>
                 /\ errlog' = errlog + StageErrorLogs
                 /\ failed' = TRUE
                 /\ pc' = AfterStageError
                 /\ igws' = <<>> /\ i' = 0 /\ stagesDone' = stagesDone
            ELSE \E resp \in IgwListings :
                 /\ calls' = <<Answered(Call("describe_internet_gateways", "dd", vpc, TRUE), resp)>>
                 /\ UNCHANGED <<errlog, failed>>
                 /\ IF resp = <<>>
                      THEN /\ igws' = <<>> /\ i' = 0
                           /\ stagesDone' = Append(stagesDone, "internet_gateways")
                           /\ pc' = NextStagePc("internet_gateways")
                      ELSE /\ igws' = resp /\ i' = 1
                           /\ stagesDone' = stagesDone
                           /\ pc' = "detach_igw"
  /\ UNCHANGED <<inputs, loopState, mainLocals, confirmLocals, dd_subnets,
                 route_tables, network_acls, security_groups, j, mutated>>

\* line 69
DetachInternetGateway ==
  /\ pc = "detach_igw"
  /\ \E ok \in BOOLEAN :
       /\ calls' = Append(calls, Call("detach_internet_gateway", "dd",
                                      igws[i].InternetGatewayId, ok))
       /\ mutated' = TRUE
       /\ IF ~ok
            THEN /\ errlog' = errlog + StageErrorLogs
                 /\ failed' = TRUE
                 /\ pc' = AfterStageError
                 /\ igws' = <<>> /\ i' = 0
            ELSE /\ UNCHANGED <<errlog, failed, igws, i>>
                 /\ pc' = "delete_igw"
  /\ UNCHANGED <<inputs, loopState, mainLocals, confirmLocals, dd_subnets,
                 route_tables, network_acls, security_groups, j, stagesDone>>

\* line 70
DeleteInternetGateway ==
  /\ pc = "delete_igw"
  /\ \E ok \in BOOLEAN :
       /\ calls' = Append(calls, Call("delete_internet_gateway", "dd",
                                      igws[i].InternetGatewayId, ok))
       /\ mutated' = TRUE
       /\ IF ~ok
            THEN /\ errlog' = errlog + StageErrorLogs
                 /\ failed' = TRUE
                 /\ pc' = AfterStageError
                 /\ igws' = <<>> /\ i' = 0 /\ stagesDone' = stagesDone
            ELSE /\ UNCHANGED <<errlog, failed>>
                 /\ IF i < Len(igws)
                      THEN /\ i' = i + 1
                           /\ pc' = "detach_igw"
                           /\ UNCHANGED <<igws, stagesDone>>
                      ELSE /\ igws' = <<>> /\ i' = 0
                           /\ stagesDone' = Append(stagesDone, "internet_gateways")
                           /\ pc' = NextStagePc("internet_gateways")
  /\ UNCHANGED <<inputs, loopState, mainLocals, confirmLocals, dd_subnets,
                 route_tables, network_acls, security_groups, j>>

\* line 77
DescribeSubnets ==
  /\ pc = "dd_subnets"
  /\ \E ok \in BOOLEAN :
       /\ IF ~ok
            THEN /\ calls' = <<Call("describe_subnets", "dd", vpc, FALSE)>>
                 /\ errlog' = errlog + StageErrorLogs
                 /\ failed' = TRUE
                 /\ pc' = AfterStageError
                 /\ dd_subnets' = <<>> /\ i' = 0 /\ stagesDone' = stagesDone
            ELSE \E resp \in SubnetListings :
                 /\ calls' = <<Answered(Call("describe_subnets", "dd", vpc, TRUE), resp)>>
                 /\ UNCHANGED <<errlog, failed>>
                 /\ IF resp = <<>>
                      THEN /\ dd_subnets' = <<>> /\ i' = 0
                           /\ stagesDone' = Append(stagesDone, "subnets")
                           /\ pc' = NextStagePc("subnets")
                      ELSE /\ dd_subnets' = resp /\ i' = 1
                           /\ stagesDone' = stagesDone
                           /\ pc' = "delete_subnet"
  /\ UNCHANGED <<inputs, loopState, mainLocals, confirmLocals, igws,
                 route_tables, network_acls, security_groups, j, mutated>>

\* lines 78-79
DeleteSubnet ==
  /\ pc = "delete_subnet"
  /\ \E ok \in BOOLEAN :
       /\ calls' = Append(calls, Call("delete_subnet", "dd",
                                      dd_subnets[i].SubnetId, ok))
       /\ mutated' = TRUE
       /\ IF ~ok
            THEN /\ errlog' = errlog + StageErrorLogs
                 /\ failed' = TRUE
                 /\ pc' = AfterStageError
                 /\ dd_subnets' = <<>> /\ i' = 0 /\ stagesDone' = stagesDone
            ELSE /\ UNCHANGED <<errlog, failed>>
                 /\ IF i < Len(dd_subnets)
                      THEN /\ i' = i + 1
                           /\ pc' = "delete_subnet"
                           /\ UNCHANGED <<dd_subnets, stagesDone>>
                      ELSE /\ dd_subnets' = <<>> /\ i' = 0
                           /\ stagesDone' = Append(stagesDone, "subnets")
                           /\ pc' = NextStagePc("subnets")
  /\ UNCHANGED <<inputs, loopState, mainLocals, confirmLocals, igws,
                 route_tables, network_acls, security_groups, j>>

\* lines 87-92: move the route table loops to their next provider call, or
\* leave the stage
GotoRouteTableCall(rts, nxt) ==
  IF nxt.at = "done"
    THEN /\ route_tables' = <<>> /\ i' = 0 /\ j' = 0
         /\ stagesDone' = Append(stagesDone, "route_tables")
         /\ pc' = NextStagePc("route_tables")
    ELSE /\ route_tables' = rts /\ i' = nxt.i /\ j' = nxt.j
         /\ stagesDone' = stagesDone
         /\ pc' = nxt.at

\* line 86
DescribeRouteTables ==
  /\ pc = "dd_route_tables"
  /\ \E ok \in BOOLEAN :
       /\ IF ~ok
            THEN /\ calls' = <<Call("describe_route_tables", "dd", vpc, FALSE)>>
                 /\ errlog' = errlog + StageErrorLogs
                 /\ failed' = TRUE
                 /\ pc' = AfterStageError
                 /\ route_tables' = <<>> /\ i' = 0 /\ j' = 0 /\ stagesDone' = stagesDone
            ELSE \E resp \in RouteTableListings :
                 /\ calls' = <<Answered(Call("describe_route_tables", "dd", vpc, TRUE), resp)>>
                 /\ UNCHANGED <<errlog, failed>>
                 /\ GotoRouteTableCall(resp, NextRouteTableCall(resp, 1, 1))
  /\ UNCHANGED <<inputs, loopState, mainLocals, confirmLocals, igws,
                 dd_subnets, network_acls, security_groups, mutated>>

\* lines 88-90
DisassociateRouteTable ==
  /\ pc = "disassociate"
  /\ \E ok \in BOOLEAN :
       /\ calls' = Append(calls,
            Call("disassociate_route_table", "dd",
                 route_tables[i].Associations[j].RouteTableAssociationId, ok))
       /\ mutated' = TRUE
       /\ IF ~ok
            THEN /\ errlog' = errlog + StageErrorLogs
                 /\ failed' = TRUE
                 /\ pc' = AfterStageError
                 /\ route_tables' = <<>> /\ i' = 0 /\ j' = 0 /\ stagesDone' = stagesDone
            ELSE /\ UNCHANGED <<errlog, failed>>
                 /\ GotoRouteTableCall(route_tables,
                      NextRouteTableCall(route_tables, i, j + 1))
  /\ UNCHANGED <<inputs, loopState, mainLocals, confirmLocals, igws,
                 dd_subnets, network_acls, security_groups>>

\* lines 91-92
DeleteRouteTable ==
  /\ pc = "delete_route_table"
  /\ \E ok \in BOOLEAN :
       /\ calls' = Append(calls, Call("delete_route_table", "dd",
                                      route_tables[i].RouteTableId, ok))
       /\ mutated' = TRUE
       /\ IF ~ok
            THEN /\ errlog' = errlog + StageErrorLogs
                 /\ failed' = TRUE
                 /\ pc' = AfterStageError
                 /\ route_tables' = <<>> /\ i' = 0 /\ j' = 0 /\ stagesDone' = stagesDone
            ELSE /\ UNCHANGED <<errlog, failed>>
                 /\ GotoRouteTableCall(route_tables,
                      NextRouteTableCall(route_tables, i + 1, 1))
  /\ UNCHANGED <<inputs, loopState, mainLocals, confirmLocals, igws,
                 dd_subnets, network_acls, security_groups>>

\* lines 100-102: move the ACL loop to its next delete, or leave the stage
GotoAcl(acls, k) ==
  IF k = 0
    THEN /\ network_acls' = <<>> /\ i' = 0
         /\ stagesDone' = Append(stagesDone, "network_acls")
         /\ pc' = NextStagePc("network_acls")
    ELSE /\ network_acls' = acls /\ i' = k
         /\ stagesDone' = stagesDone
         /\ pc' = "delete_acl"

\* line 99
DescribeNetworkAcls ==
  /\ pc = "dd_acls"
  /\ \E ok \in BOOLEAN :
       /\ IF ~ok
            THEN /\ calls' = <<Call("describe_network_acls", "dd", vpc, FALSE)>>
                 /\ errlog' = errlog + StageErrorLogs
                 /\ failed' = TRUE
                 /\ pc' = AfterStageError
                 /\ network_acls' = <<>> /\ i' = 0 /\ stagesDone' = stagesDone
            ELSE \E resp \in AclListings :
                 /\ calls' = <<Answered(Call("describe_network_acls", "dd", vpc, TRUE), resp)>>
                 /\ UNCHANGED <<errlog, failed>>
                 /\ GotoAcl(resp, NextAcl(resp, 1))
  /\ UNCHANGED <<inputs, loopState, mainLocals, confirmLocals, igws,
                 dd_subnets, route_tables, security_groups, j, mutated>>

\* lines 100-102
DeleteNetworkAcl ==
  /\ pc = "delete_acl"
  /\ \E ok \in BOOLEAN :
       /\ calls' = Append(calls, Call("delete_network_acl", "dd",
                                      network_acls[i].NetworkAclId, ok))
       /\ mutated' = TRUE
       /\ IF ~ok
            THEN /\ errlog' = errlog + StageErrorLogs
                 /\ failed' = TRUE
                 /\ pc' = AfterStageError
                 /\ network_acls' = <<>> /\ i' = 0 /\ stagesDone' = stagesDone
            ELSE /\ UNCHANGED <<errlog, failed>>
                 /\ GotoAcl(network_acls, NextAcl(network_acls, i + 1))
  /\ UNCHANGED <<inputs, loopState, mainLocals, confirmLocals, igws,
                 dd_subnets, route_tables, security_groups, j>>

\* lines 110-112: move the security group loop to its next delete, or leave
GotoGroup(sgs, k) ==
  IF k = 0
    THEN /\ security_groups' = <<>> /\ i' = 0
         /\ stagesDone' = Append(stagesDone, "security_groups")
         /\ pc' = NextStagePc("security_groups")
    ELSE /\ security_groups' = sgs /\ i' = k
         /\ stagesDone' = stagesDone
         /\ pc' = "delete_sg"

\* line 109
DescribeSecurityGroups ==
  /\ pc = "dd_sgs"
  /\ \E ok \in BOOLEAN :
       /\ IF ~ok
            THEN /\ calls' = <<Call("describe_security_groups", "dd", vpc, FALSE)>>
                 /\ errlog' = errlog + StageErrorLogs
                 /\ failed' = TRUE
                 /\ pc' = AfterStageError
                 /\ security_groups' = <<>> /\ i' = 0 /\ stagesDone' = stagesDone
            ELSE \E resp \in SecurityGroupListings :
                 /\ calls' = <<Answered(Call("describe_security_groups", "dd", vpc, TRUE), resp)>>
                 /\ UNCHANGED <<errlog, failed>>
                 /\ GotoGroup(resp, NextGroup(resp, 1))
  /\ UNCHANGED <<inputs, loopState, mainLocals, confirmLocals, igws,
                 dd_subnets, route_tables, network_acls, j, mutated>>

\* lines 110-112
DeleteSecurityGroup ==
  /\ pc = "delete_sg"
  /\ \E ok \in BOOLEAN :
       /\ calls' = Append(calls, Call("delete_security_group", "dd",
                                      security_groups[i].GroupId, ok))
       /\ mutated' = TRUE
       /\ IF ~ok
            THEN /\ errlog' = errlog + StageErrorLogs
                 /\ failed' = TRUE
                 /\ pc' = AfterStageError
                 /\ security_groups' = <<>> /\ i' = 0 /\ stagesDone' = stagesDone
            ELSE /\ UNCHANGED <<errlog, failed>>
                 /\ GotoGroup(security_groups, NextGroup(security_groups, i + 1))
  /\ UNCHANGED <<inputs, loopState, mainLocals, confirmLocals, igws,
                 dd_subnets, route_tables, network_acls, j>>

\* lines 117-122
DeleteVpc ==
  /\ pc = "delete_vpc"
  /\ \E ok \in BOOLEAN :
       /\ calls' = <<Call("delete_vpc", "dd", vpc, ok)>>
       /\ mutated' = TRUE
       /\ IF ~ok
            THEN /\ errlog' = errlog + StageErrorLogs
                 /\ failed' = TRUE
                 /\ pc' = AfterStageError
                 /\ stagesDone' = stagesDone
            ELSE /\ UNCHANGED <<errlog, failed>>
                 /\ stagesDone' = Append(stagesDone, "vpc")
                 /\ pc' = NextStagePc("vpc")
  /\ UNCHANGED <<inputs, loopState, mainLocals, confirmLocals, ddLocals>>

\* where the loop body goes after the except clause of lines 178-179
AfterDeleteError == "loop"

\* lines 177-179: the script defines no delete_resources, so evaluating the
\* name raises NameError, an Exception, which the except clause of line 178
\* catches and logs
CallDeleteResources ==
  /\ pc = "delete_resources"
  /\ errlog' = errlog + 1
  /\ pc' = AfterDeleteError
  /\ UNCHANGED <<inputs, loopState, mainLocals, confirmLocals, ddLocals,
                 calls, stagesDone, mutated, failed>>

Next ==
  \/ DescribeRegions
  \/ ForRegion
  \/ DescribeVpcs
  \/ LookupInternetGateways
  \/ LookupSubnets
  \/ ConfirmDelete
  \/ ReadAnswer
  \/ DescribeInternetGateways
  \/ DetachInternetGateway
  \/ DeleteInternetGateway
  \/ DescribeSubnets
  \/ DeleteSubnet
  \/ DescribeRouteTables
  \/ DisassociateRouteTable
  \/ DeleteRouteTable
  \/ DescribeNetworkAcls
  \/ DeleteNetworkAcl
  \/ DescribeSecurityGroups
  \/ DeleteSecurityGroup
  \/ DeleteVpc
  \/ CallDeleteResources

Spec == Init /\ [][Next]_vars


\* ---- the properties ----

Range(s) == {s[k] : k \in DOMAIN s}

DescribeOps == {"describe_regions", "describe_vpcs",
                "describe_internet_gateways", "describe_subnets",
                "describe_route_tables", "describe_network_acls",
                "describe_security_groups"}

\* this iteration's describe_vpcs call succeeded and found no default VPC
FoundNoDefaultVpc ==
  /\ vpcs = <<>>
  /\ \E k \in DOMAIN calls : calls[k].op = "describe_vpcs" /\ calls[k].ok

\* C1: in an iteration whose describe_vpcs call returns no default VPC, that
\* call is the only provider call: nothing is detached, disassociated or
\* deleted, nothing else is described, the user is not prompted, and the
\* script is at the for statement again.
C1_NoDefaultVpcNoCalls ==
  FoundNoDefaultVpc =>
    /\ pc = "loop"
    /\ Len(calls) = 1
    /\ ~mutated
    /\ ~prompted
    /\ stagesDone = <<>>

C1_Witness == FoundNoDefaultVpc /\ idx = 2

\* position of an operation of delete_dependent_resources in the deletion
\* order the claim states
StageIndex(op) ==
  CASE op \in {"describe_internet_gateways", "detach_internet_gateway",
               "delete_internet_gateway"} -> 1
    [] op \in {"describe_subnets", "delete_subnet"} -> 2
    [] op \in {"describe_route_tables", "disassociate_route_table",
               "delete_route_table"} -> 3
    [] op \in {"describe_network_acls", "delete_network_acl"} -> 4
    [] op \in {"describe_security_groups", "delete_security_group"} -> 5
    [] op = "delete_vpc" -> 6
    [] OTHER -> 0

ClaimedOrder == <<"internet_gateways", "subnets", "route_tables",
                  "network_acls", "security_groups", "vpc">>

\* C2: the stages complete in the order gateways, subnets, route tables,
\* ACLs, security groups, VPC; a call of a stage is issued only when exactly
\* the stages before it have completed, so delete_vpc comes after all five;
\* a stage whose call failed is not completed; a gateway is deleted right
\* after its own successful detach, and no association of a route table is
\* disassociated after the table's delete.
C2_DeletionOrder ==
  /\ Len(stagesDone) <= Len(ClaimedOrder)
  /\ stagesDone = SubSeq(ClaimedOrder, 1, Len(stagesDone))
  /\ \A k \in DOMAIN calls :
       calls[k].site = "dd" =>
         /\ Len(stagesDone) \in {StageIndex(calls[k].op) - 1, StageIndex(calls[k].op)}
         /\ ~calls[k].ok => Len(stagesDone) = StageIndex(calls[k].op) - 1
         /\ calls[k].op = "delete_vpc" =>
              SubSeq(stagesDone, 1, 5) = SubSeq(ClaimedOrder, 1, 5)
         /\ calls[k].op = "delete_internet_gateway" =>
              /\ k > 1
              /\ calls[k - 1].op = "detach_internet_gateway"
              /\ calls[k - 1].arg = calls[k].arg
              /\ calls[k - 1].ok
         /\ calls[k].op = "delete_route_table" =>
              \A l \in DOMAIN calls :
                (l > k /\ calls[l].op = "disassociate_route_table")
                  => calls[l].arg[2] # calls[k].arg[2]

C2_Witness ==
  /\ calls # <<>>
  /\ Last(calls).op = "delete_vpc"
  /\ Last(calls).ok
  /\ stagesDone = ClaimedOrder

\* C3: only a failure of describe_regions, before the loop, ends the script
\* early; a provider call that fails inside a region's processing leaves the
\* script at the for statement, the regions whose describe_vpcs call was
\* issued are always the first regions of the list, in list order, and when
\* the script ends they are the whole list.
C3_FailureDoesNotStopRun ==
  /\ pc = "crashed" => idx = 0
  /\ failed => pc = "loop"
  /\ Len(started) <= Len(REGIONS)
  /\ started = SubSeq(REGIONS, 1, Len(started))
  /\ Len(started) = IF pc = "describe_vpcs" THEN idx - 1 ELSE idx
  /\ pc = "done" => started = REGIONS

C3_Witness ==
  /\ prevErrors > 0
  /\ Len(started) = 2
  /\ idx = 2
  /\ \E k \in DOMAIN calls : calls[k].op = "describe_vpcs"

\* the lookups of this iteration succeeded and the listing was built
LookedUp == resources # <<>>

\* delete_dependent_resources was entered in this iteration
EnteredDelete ==
  \/ stagesDone # <<>>
  \/ \E k \in DOMAIN calls : calls[k].site = "dd"

\* C4: with --no-confirm no input is ever read, and a region whose lookups
\* succeeded goes on to delete_dependent_resources; without --no-confirm
\* input has been read before any detach, disassociate or delete call.
C4_NoConfirmBypassesPrompt ==
  /\ no_confirm => ~prompted /\ pc # "input"
  /\ (no_confirm /\ LookedUp /\ pc = "loop") => EnteredDelete
  /\ (~no_confirm /\ (mutated \/ EnteredDelete)) => prompted

C4_Witness == no_confirm /\ mutated /\ ~prompted

\* C6: after a failed provider call the script is at the for statement, the
\* failure was logged, the failed call is the last call issued (no retry, no
\* further call, no delete_vpc after an earlier failure), and no call other
\* than describe, detach, disassociate and delete calls is ever issued.
C6_FailureAbandonsRegion ==
  /\ \A k \in DOMAIN calls :
       /\ (~calls[k].ok /\ calls[k].op # "describe_regions") =>
            (k = Len(calls) /\ failed)
       /\ calls[k].op \in DescribeOps \cup MutatingOps
  /\ failed =>
       /\ pc = "loop"
       /\ errlog > 0
       /\ calls # <<>>
       /\ ~Last(calls).ok
       /\ "vpc" \notin Range(stagesDone)

C6_Witness ==
  /\ failed
  /\ mutated
  /\ pc = "loop"
  /\ Len(calls) > 2
  /\ Last(calls).op # "delete_vpc"

\* C7: without --no-confirm, delete_dependent_resources is entered only when
\* the last answer was y or Y; after n or N nothing was detached,
\* disassociated or deleted and the script is at the for statement; after any
\* other answer nothing has changed and the script is at the prompt again;
\* after y or Y it is not.
C7_PromptGatesDeletion ==
  /\ (~no_confirm /\ (mutated \/ EnteredDelete)) =>
       confirmation \in {<<"y">>, <<"Y">>}
  /\ (prompted /\ confirmation \in {<<"n">>, <<"N">>}) =>
       pc = "loop" /\ ~mutated /\ ~EnteredDelete
  /\ (prompted /\ confirmation \notin {<<"y">>, <<"Y">>, <<"n">>, <<"N">>}) =>
       pc = "input" /\ ~mutated /\ ~EnteredDelete /\ errlog = 0
  /\ (prompted /\ confirmation \in {<<"y">>, <<"Y">>}) => pc # "input"

C7_Witness ==
  /\ ~no_confirm
  /\ mutated
  /\ confirmation = <<"Y">>

\* the listing the stage in progress (or just completed) is working on
StageListing == IF calls # <<>> /\ calls[1].ok THEN calls[1].resp ELSE <<>>

HasMain(rt) == \E k \in DOMAIN rt.Associations : rt.Associations[k].Main

\* C8: a delete_network_acl call names a listed ACL that is not the default
\* one, a delete_security_group call a listed group not named default, a
\* delete_route_table call a listed table without a main association, a
\* disassociate_route_table call a listed association that is not the main
\* one; and once a stage has completed, every such ACL, group and table of
\* its listing has been deleted.
C8_DefaultsAreKept ==
  /\ \A k \in DOMAIN calls :
       /\ calls[k].op = "delete_network_acl" =>
            \E a \in Range(StageListing) :
              a.NetworkAclId = calls[k].arg /\ ~a.IsDefault
       /\ calls[k].op = "delete_security_group" =>
            \E g \in Range(StageListing) :
              g.GroupId = calls[k].arg /\ g.GroupName # "default"
       /\ calls[k].op = "delete_route_table" =>
            \E rt \in Range(StageListing) :
              rt.RouteTableId = calls[k].arg /\ ~HasMain(rt)
       /\ calls[k].op = "disassociate_route_table" =>
            \E rt \in Range(StageListing) : \E a \in Range(rt.Associations) :
              a.RouteTableAssociationId = calls[k].arg /\ ~a.Main
  /\ (calls # <<>> /\ stagesDone # <<>>
        /\ StageIndex(calls[1].op) = Len(stagesDone)) =>
       /\ calls[1].op = "describe_network_acls" =>
            \A a \in Range(StageListing) :
              ~a.IsDefault =>
                \E k \in DOMAIN calls :
                  /\ calls[k].op = "delete_network_acl"
                  /\ calls[k].arg = a.NetworkAclId
                  /\ calls[k].ok
       /\ calls[1].op = "describe_security_groups" =>
            \A g \in Range(StageListing) :
              g.GroupName # "default" =>
                \E k \in DOMAIN calls :
                  /\ calls[k].op = "delete_security_group"
                  /\ calls[k].arg = g.GroupId
                  /\ calls[k].ok
       /\ calls[1].op = "describe_route_tables" =>
            \A rt \in Range(StageListing) :
              ~HasMain(rt) =>
                \E k \in DOMAIN calls :
                  /\ calls[k].op = "delete_route_table"
                  /\ calls[k].arg = rt.RouteTableId
                  /\ calls[k].ok

C8_Witness ==
  /\ calls # <<>>
  /\ calls[1].op = "describe_network_acls"
  /\ Len(stagesDone) = 4
  /\ \E a \in Range(StageListing) : a.IsDefault
  /\ \E k \in DOMAIN calls : calls[k].op = "delete_network_acl" /\ calls[k].ok

\* C5 as claimed: every provider call of an iteration goes to the region of
\* that iteration.
C5_CallsGoToLoopRegion ==
  idx >= 1 => \A k \in DOMAIN calls : calls[k].region = region

\* C9 as claimed: once delete_vpc has succeeded, the iteration logs no error.
C9_NoErrorAfterCleanDelete ==
  "vpc" \in Range(stagesDone) => errlog = 0

\* identifiers named in the listing built for the prompt
ListedIds == {resources[k][2] : k \in DOMAIN resources}

\* C10 as claimed: every resource a delete call names is in the listing
\* built for the prompt.
C10_DeletedWereListed ==
  \A k \in DOMAIN calls :
    calls[k].op \in DeleteOps => calls[k].arg \in ListedIds

====
